---- MODULE Spec2Model ----
\* DNSSpoofDetector (src/DNS_Spoofing_and_Detection_Tool.ipynb): the consistency
\* cache, the divergence test of dns_detect, the capture loop of start_detecting,
\* and the verification phase (verify_suspicious_responses, verify_dns,
\* trace_actual_dns) driven by the usage cell.
EXTENDS Integers, Sequences, FiniteSets, TLC

\* ------------------------------------------------------------------ bounds
\* Number of packets the capture source delivers in one session.
MaxPackets == 3

\* Number of log entries at the end of the capture in the sessions of SpecPool.
PoolTasks == 6

\* ------------------------------------------------------------ value domains
\* Queried names (packet[DNSQR].qname.decode()).
Names == {"foo.example.", "bar.example."}
\* rdata of the first DNSRR of a packet; "" is an answer of zero rdlen.
Rdata == {"", "1.1.1.1", "2.2.2.2"}
\* What resolver.resolve(domain, 'A')[0].to_text() can return.
ResolverAnswers == {"1.1.1.1", "2.2.2.2"}
\* Python's None (dict.get on a missing key, a field a packet does not have).
None == "None"
\* ThreadPoolExecutor(max_workers=5)
max_workers == 5

\* The answer sections of a captured packet: the rdata of its DNSRR records, in
\* order (none for a query, several for round-robin or dual-stack answers).
AnswerLists ==
    {<<>>} \cup {<<a>> : a \in Rdata} \cup {<<a, b>> : a \in Rdata, b \in Rdata}

\* A captured packet on the wire: whether it has a question section, the
\* queried name, and its answer records.
WirePackets ==
    [hasQR : {TRUE}, qname : Names, answers : AnswerLists]
    \cup [hasQR : {FALSE}, qname : {None}, answers : {<<"1.1.1.1">>}]

\* Variant of FirstRecord: rdata is read from the last answer record.
FirstRecord_last(w) ==
    [hasRR |-> w.answers # <<>>, hasQR |-> w.hasQR, qname |-> w.qname,
     rdata |-> IF w.answers # <<>> THEN w.answers[Len(w.answers)] ELSE None]

\* What dns_detect reads of a packet: packet.haslayer(DNSRR),
\* packet[DNSQR].qname and packet[DNSRR].rdata, the first DNSRR of the packet.
FirstRecord(w) ==
    [hasRR |-> w.answers # <<>>, hasQR |-> w.hasQR, qname |-> w.qname,
     rdata |-> IF w.answers # <<>> THEN w.answers[1] ELSE None]

\* A captured packet as dns_detect reads it: whether it has a DNSRR layer,
\* whether it has a DNSQR layer, the queried name and the first answer's rdata.
Packets == {FirstRecord(w) : w \in WirePackets}

\* The three lookups of trace_actual_dns, in program order.
Lookups == <<"whois", "asn_real", "asn_spoofed">>

VARIABLES
    cache,                 \* self.cache: dict qname -> rdata
    suspicious_responses,  \* self.suspicious_responses: list of (qname, cached, rdata)
    stop_detecting,        \* self.stop_detecting
    pc,                    \* position of the usage cell (session lifecycle)
    futures,               \* the tasks submitted to the executor, in submission order
    processed,             \* history: the packets passed to dns_detect, in arrival order
    capture,               \* the capture source of scapy.sniff: "none", "open",
                           \* "released" (sniff has ended) or "failed" (not opened)
    after_stop             \* history: packets passed to dns_detect while
                           \* stop_detecting was already set

vars == <<cache, suspicious_responses, stop_detecting, pc, futures, processed,
          capture, after_stop>>

\* ------------------------------------------------------------- dns_detect
\* Python truthiness of an address value (None and empty values are falsy).
Truthy(v) == v # None /\ v # ""

\* dns_detect raises when the packet has a DNSRR but no DNSQR (packet[DNSQR]).
DetectRaises(packet) == packet.hasRR /\ ~packet.hasQR

\* Variant of DetectCache: a divergent answer replaces the cached address.
DetectCache_overwrite(c, packet) ==
    IF packet.hasRR /\ packet.hasQR
    THEN IF packet.qname \in DOMAIN c
         THEN [c EXCEPT ![packet.qname] = packet.rdata]
         ELSE c @@ (packet.qname :> packet.rdata)
    ELSE c

\* Variant of DetectCache: the haslayer(DNSRR) test is skipped, so a query's
\* name is cached too.
DetectCache_noguard(c, packet) ==
    IF packet.hasQR /\ packet.qname \notin DOMAIN c
    THEN c @@ (packet.qname :> packet.rdata)
    ELSE c

\* The cache after dns_detect(packet): written only when qname is not cached.
DetectCache(c, packet) ==
    IF packet.hasRR /\ packet.hasQR /\ packet.qname \notin DOMAIN c
    THEN c @@ (packet.qname :> packet.rdata)
    ELSE c

\* Variant of DetectLog: every answer for a cached name is logged, equal or not.
DetectLog_nocompare(c, log, packet) ==
    IF packet.hasRR /\ packet.hasQR /\ packet.qname \in DOMAIN c
    THEN Append(log, <<packet.qname, c[packet.qname], packet.rdata>>)
    ELSE log

\* Variant of DetectLog: the tuple is built as (qname, rdata, cached).
DetectLog_swapped(c, log, packet) ==
    IF packet.hasRR /\ packet.hasQR /\ packet.qname \in DOMAIN c
       /\ c[packet.qname] # packet.rdata
    THEN Append(log, <<packet.qname, packet.rdata, c[packet.qname]>>)
    ELSE log

\* Variant of DetectLog: the tuple is inserted at the head of the list.
DetectLog_prepend(c, log, packet) ==
    IF packet.hasRR /\ packet.hasQR /\ packet.qname \in DOMAIN c
       /\ c[packet.qname] # packet.rdata
    THEN <<(<<packet.qname, c[packet.qname], packet.rdata>>)>> \o log
    ELSE log

\* The log after dns_detect(packet): one tuple appended on a divergent answer.
DetectLog(c, log, packet) ==
    IF packet.hasRR /\ packet.hasQR /\ packet.qname \in DOMAIN c
       /\ c[packet.qname] # packet.rdata
    THEN Append(log, <<packet.qname, c[packet.qname], packet.rdata>>)
    ELSE log

\* Variant of check_stop: the stop flag is not reported to sniff.
check_stop_never == FALSE

\* check_stop(packet)
check_stop == stop_detecting

Init ==
    /\ cache = <<>>
    /\ suspicious_responses = <<>>
    /\ stop_detecting = FALSE
    /\ pc = "Idle"
    /\ futures = <<>>
    /\ processed = <<>>
    /\ capture = "none"
    /\ after_stop = 0

\* start_detecting: scapy.sniff opens the capture source.
start_detecting ==
    /\ pc = "Idle"
    /\ pc' = "Running"
    /\ capture' = "open"
    /\ UNCHANGED <<cache, suspicious_responses, stop_detecting, futures, processed,
                   after_stop>>

\* Variant of start_detecting_PermissionError: the error is swallowed and the
\* capture loop is entered all the same.
start_detecting_PermissionError_ignored ==
    /\ pc = "Idle"
    /\ pc' = "Running"
    /\ capture' = "failed"
    /\ UNCHANGED <<cache, suspicious_responses, stop_detecting, futures, processed,
                   after_stop>>

\* start_detecting: sniff raises PermissionError, which start_detecting catches
\* before returning normally to the usage cell.
start_detecting_PermissionError ==
    /\ pc = "Idle"
    /\ pc' = "Stopping"
    /\ capture' = "failed"
    /\ UNCHANGED <<cache, suspicious_responses, stop_detecting, futures, processed,
                   after_stop>>

\* One iteration of sniff: prn=dns_detect(packet), then stop_filter=check_stop.
\* An exception raised by dns_detect leaves sniff and is caught by
\* start_detecting, which returns.
sniff_packet(packet) ==
    /\ pc = "Running"
    /\ Len(processed) < MaxPackets
    /\ processed' = Append(processed, packet)
    /\ cache' = DetectCache(cache, packet)
    /\ suspicious_responses' = DetectLog(cache, suspicious_responses, packet)
    /\ pc' = IF DetectRaises(packet) \/ check_stop THEN "Stopping" ELSE "Running"
    /\ capture' = IF DetectRaises(packet) \/ check_stop THEN "released" ELSE capture
    /\ after_stop' = IF stop_detecting THEN after_stop + 1 ELSE after_stop
    /\ UNCHANGED <<stop_detecting, futures>>

\* stop_detection called while the capture loop runs.
stop_detection ==
    /\ pc = "Running"
    /\ ~stop_detecting
    /\ stop_detecting' = TRUE
    /\ UNCHANGED <<cache, suspicious_responses, pc, futures, processed, capture, after_stop>>

\* KeyboardInterrupt during the capture: caught by start_detecting (escaped =
\* FALSE), or raised outside its try and caught by the usage cell, which calls
\* stop_detection (escaped = TRUE).
KeyboardInterrupt ==
    /\ pc = "Running"
    /\ \E escaped \in BOOLEAN :
         stop_detecting' = (stop_detecting \/ escaped)
    /\ pc' = "Stopping"
    /\ capture' = "released"
    /\ UNCHANGED <<cache, suspicious_responses, futures, processed, after_stop>>

\* ------------------------------------------------------ verification phase
\* A task of the executor: executor.submit(self.verify_dns, domain).
NewTask(domain) ==
    [domain |-> domain, state |-> "pending", outcome |-> "none", real_ip |-> None,
     confirmed |-> FALSE, traced |-> <<>>, lookups |-> <<>>, failed |-> {},
     queries |-> 0]

\* self.cache.get(domain)
CacheGet(c, domain) == IF domain \in DOMAIN c THEN c[domain] ELSE None

\* verify_dns: the test "cached_ip and real_ip != cached_ip".
IsConfirmed(cached_ip, real_ip) == Truthy(cached_ip) /\ real_ip # cached_ip

\* Variant of TraceArgs: the two addresses are passed in the other order.
TraceArgs_swapped(domain, real_ip, cached_ip) == <<domain, cached_ip, real_ip>>

\* verify_dns: the arguments of self.trace_actual_dns(domain, real_ip,
\* cached_ip), received as (domain, real_ip, spoofed_ip).
TraceArgs(domain, real_ip, cached_ip) == <<domain, real_ip, cached_ip>>

\* What each lookup of trace_actual_dns is made for, given its arguments:
\* whois.whois(domain), IPWhois(real_ip), IPWhois(spoofed_ip).
LookupTarget(lookup, args) ==
    CASE lookup = "whois" -> args[1]
      [] lookup = "asn_real" -> args[2]
      [] lookup = "asn_spoofed" -> args[3]

\* Variant of SubmittedDomains: one domain per distinct name of the log.
SubmittedDomains_distinct(log) ==
    LET F[n \in 0..Len(log)] ==
          IF n = 0 THEN <<>>
          ELSE IF \E j \in 1..(n - 1) : log[j][1] = log[n][1]
               THEN F[n - 1]
               ELSE Append(F[n - 1], log[n][1])
    IN F[Len(log)]

\* The domains verify_suspicious_responses submits, in order: "for domain, _, _
\* in self.suspicious_responses".
SubmittedDomains(log) == [k \in 1..Len(log) |-> log[k][1]]

\* The tasks a worker thread is executing.
Executing(fs) == {i \in 1..Len(fs) : fs[i].state \notin {"pending", "done"}}

\* Variant of AllFinished: the wait returns when the first future has finished.
AllFinished_first(fs) == Len(fs) = 0 \/ \E i \in 1..Len(fs) : fs[i].state = "done"

\* concurrent.futures.wait(futures) and the executor's shutdown(wait=True) on
\* leaving the with block: every submitted future has finished.
AllFinished(fs) == \A i \in 1..Len(fs) : fs[i].state = "done"

\* Variant of LookupsMade: the first lookup that raises ends trace_actual_dns.
LookupsMade_abort(raises) ==
    IF \E k \in 1..Len(Lookups) : Lookups[k] \in raises
    THEN SubSeq(Lookups, 1,
                CHOOSE k \in 1..Len(Lookups) :
                    /\ Lookups[k] \in raises
                    /\ \A j \in 1..(k - 1) : Lookups[j] \notin raises)
    ELSE Lookups

\* The lookups trace_actual_dns makes when the lookups in `raises` raise: each
\* of the three is in its own try/except Exception, so all are made, in order.
LookupsMade(raises) == Lookups

\* Variant of verify_suspicious_responses: it can also be entered while the
\* capture loop is still running.
verify_suspicious_responses_early ==
    /\ pc \in {"Running", "Stopping"}
    /\ pc' = "Verifying"
    /\ futures' = <<>>
    /\ UNCHANGED <<cache, suspicious_responses, stop_detecting, processed, capture, after_stop>>

\* The usage cell's finally: verify_suspicious_responses is entered and the
\* executor is created.
verify_suspicious_responses ==
    /\ pc = "Stopping"
    /\ pc' = "Verifying"
    /\ futures' = <<>>
    /\ UNCHANGED <<cache, suspicious_responses, stop_detecting, processed, capture, after_stop>>

\* One iteration of the list comprehension: executor.submit(self.verify_dns,
\* domain) for the next tuple of suspicious_responses.
executor_submit ==
    /\ pc = "Verifying"
    /\ Len(futures) < Len(SubmittedDomains(suspicious_responses))
    /\ futures' = Append(futures,
           NewTask(SubmittedDomains(suspicious_responses)[Len(futures) + 1]))
    /\ UNCHANGED <<cache, suspicious_responses, stop_detecting, pc, processed, capture, after_stop>>

\* Variant of worker_start: a thread is started for every work item.
worker_start_unbounded(i) ==
    /\ pc = "Verifying"
    /\ futures[i].state = "pending"
    /\ \A j \in 1..(i - 1) : futures[j].state # "pending"
    /\ futures' = [futures EXCEPT ![i].state = "running"]
    /\ UNCHANGED <<cache, suspicious_responses, stop_detecting, pc, processed, capture, after_stop>>

\* A worker thread takes the next work item off the executor's FIFO queue.
worker_start(i) ==
    /\ pc = "Verifying"
    /\ futures[i].state = "pending"
    /\ \A j \in 1..(i - 1) : futures[j].state # "pending"
    /\ Cardinality(Executing(futures)) < max_workers
    /\ futures' = [futures EXCEPT ![i].state = "running"]
    /\ UNCHANGED <<cache, suspicious_responses, stop_detecting, pc, processed, capture, after_stop>>

\* Variant of verify_dns: trace_actual_dns is called after every successful
\* resolution, whatever the comparison says.
verify_dns_tracealways(i) ==
    /\ pc = "Verifying"
    /\ futures[i].state = "running"
    /\ \E real_ip \in ResolverAnswers :
         LET cached_ip == CacheGet(cache, futures[i].domain)
             t == [futures[i] EXCEPT !.real_ip = real_ip, !.queries = @ + 1]
         IN futures' = [futures EXCEPT ![i] =
              [t EXCEPT !.confirmed = IsConfirmed(cached_ip, real_ip),
                        !.state = "tracing",
                        !.traced = TraceArgs(t.domain, real_ip, cached_ip)]]
    /\ UNCHANGED <<cache, suspicious_responses, stop_detecting, pc, processed, capture, after_stop>>

\* Variant of verify_dns: a confirmed spoof also stores real_ip in the cache.
verify_dns_rebaseline(i) ==
    /\ pc = "Verifying"
    /\ futures[i].state = "running"
    /\ \E real_ip \in ResolverAnswers :
         LET cached_ip == CacheGet(cache, futures[i].domain)
             t == [futures[i] EXCEPT !.real_ip = real_ip, !.queries = @ + 1]
         IN IF IsConfirmed(cached_ip, real_ip)
            THEN /\ futures' = [futures EXCEPT ![i] =
                        [t EXCEPT !.confirmed = TRUE, !.state = "tracing",
                                  !.traced = TraceArgs(t.domain, real_ip, cached_ip)]]
                 /\ cache' = [cache EXCEPT ![t.domain] = real_ip]
            ELSE /\ futures' = [futures EXCEPT ![i] =
                        [t EXCEPT !.state = "done", !.outcome = "returned"]]
                 /\ cache' = cache
    /\ UNCHANGED <<suspicious_responses, stop_detecting, pc, processed, capture, after_stop>>

\* verify_dns: the resolver answers; the cached address is compared and, on a
\* confirmed spoof, trace_actual_dns(domain, real_ip, cached_ip) is entered.
verify_dns(i) ==
    /\ pc = "Verifying"
    /\ futures[i].state = "running"
    /\ \E real_ip \in ResolverAnswers :
         LET cached_ip == CacheGet(cache, futures[i].domain)
             t == [futures[i] EXCEPT !.real_ip = real_ip, !.queries = @ + 1]
         IN futures' = [futures EXCEPT ![i] =
              IF IsConfirmed(cached_ip, real_ip)
              THEN [t EXCEPT !.confirmed = TRUE, !.state = "tracing",
                             !.traced = TraceArgs(t.domain, real_ip, cached_ip)]
              ELSE [t EXCEPT !.state = "done", !.outcome = "returned"]]
    /\ UNCHANGED <<cache, suspicious_responses, stop_detecting, pc, processed, capture, after_stop>>

\* Variant of verify_dns_failed: the failure also cancels the futures that have
\* not started.
verify_dns_failed_cancel(i) ==
    /\ pc = "Verifying"
    /\ futures[i].state = "running"
    /\ \E kind \in {"NXDOMAIN", "error"} :
         futures' = [j \in 1..Len(futures) |->
              IF j = i THEN [futures[j] EXCEPT !.state = "done", !.outcome = kind,
                                               !.queries = @ + 1]
              ELSE IF futures[j].state = "pending"
                   THEN [futures[j] EXCEPT !.state = "done"]
                   ELSE futures[j]]
    /\ UNCHANGED <<cache, suspicious_responses, stop_detecting, pc, processed, capture, after_stop>>

\* Variant of verify_dns_failed: after the failure the call is run again.
verify_dns_failed_retry(i) ==
    /\ pc = "Verifying"
    /\ futures[i].state = "running"
    /\ futures[i].queries < 2
    /\ \E kind \in {"NXDOMAIN", "error"} :
         futures' = [futures EXCEPT ![i].outcome = kind, ![i].queries = @ + 1]
    /\ UNCHANGED <<cache, suspicious_responses, stop_detecting, pc, processed, capture, after_stop>>

\* Variant of verify_dns_failed: the failing call never completes its future.
verify_dns_failed_hang(i) ==
    /\ pc = "Verifying"
    /\ futures[i].state = "running"
    /\ \E kind \in {"NXDOMAIN", "error"} :
         futures' = [futures EXCEPT ![i].state = "hung", ![i].outcome = kind,
                                    ![i].queries = @ + 1]
    /\ UNCHANGED <<cache, suspicious_responses, stop_detecting, pc, processed, capture, after_stop>>

\* verify_dns: the resolver raises NXDOMAIN (kind = "NXDOMAIN") or any other
\* exception (kind = "error"); the handler prints and returns None.
verify_dns_failed(i) ==
    /\ pc = "Verifying"
    /\ futures[i].state = "running"
    /\ \E kind \in {"NXDOMAIN", "error"} :
         futures' = [futures EXCEPT ![i].state = "done", ![i].outcome = kind,
                                    ![i].queries = @ + 1]
    /\ UNCHANGED <<cache, suspicious_responses, stop_detecting, pc, processed, capture, after_stop>>

\* trace_actual_dns(domain, real_ip, spoofed_ip): the lookups are made, each
\* succeeding or raising (raises: those that raise); then verify_dns returns
\* real_ip.
trace_actual_dns(i) ==
    /\ pc = "Verifying"
    /\ futures[i].state = "tracing"
    /\ \E raises \in SUBSET {Lookups[k] : k \in 1..Len(Lookups)} :
         LET made == LookupsMade(raises)
         IN futures' = [futures EXCEPT
              ![i].lookups = made,
              ![i].failed = raises \cap {made[k] : k \in 1..Len(made)},
              ![i].state = "done",
              ![i].outcome = "returned"]
    /\ UNCHANGED <<cache, suspicious_responses, stop_detecting, pc, processed, capture, after_stop>>

\* verify_suspicious_responses returns: every tuple was submitted, wait(futures)
\* and the with block's shutdown have returned.
verify_return ==
    /\ pc = "Verifying"
    /\ Len(futures) = Len(SubmittedDomains(suspicious_responses))
    /\ AllFinished(futures)
    /\ pc' = "Done"
    /\ UNCHANGED <<cache, suspicious_responses, stop_detecting, futures, processed, capture, after_stop>>

Next ==
    \/ start_detecting
    \/ start_detecting_PermissionError
    \/ \E packet \in Packets : sniff_packet(packet)
    \/ stop_detection
    \/ KeyboardInterrupt
    \/ verify_suspicious_responses
    \/ executor_submit
    \/ \E i \in 1..Len(futures) : worker_start(i)
    \/ \E i \in 1..Len(futures) : verify_dns(i)
    \/ \E i \in 1..Len(futures) : verify_dns_failed(i)
    \/ \E i \in 1..Len(futures) : trace_actual_dns(i)
    \/ verify_return

Spec == Init /\ [][Next]_vars

\* ================================================================ history
\* A processed packet from which dns_detect read a name and an answer.
IsAnswer(p) == p.hasRR /\ p.hasQR

\* The positions of the history h holding an answer for name n.
AnswersFor(h, n) == {k \in 1..Len(h) : IsAnswer(h[k]) /\ h[k].qname = n}

\* Whether position k of h is the first answer for its name.
IsFirstAnswer(h, k) ==
    /\ IsAnswer(h[k])
    /\ \A j \in 1..(k - 1) : ~(IsAnswer(h[j]) /\ h[j].qname = h[k].qname)

\* The position of the first answer for n in h (n has one).
FirstAnswer(h, n) ==
    CHOOSE k \in 1..Len(h) : IsFirstAnswer(h, k) /\ h[k].qname = n

\* The positions of h holding a divergent answer: an earlier answer for the same
\* name exists and the first of them carried another address.
Divergent(h) ==
    {k \in 1..Len(h) :
        /\ IsAnswer(h[k])
        /\ \E j \in 1..(k - 1) :
             /\ IsFirstAnswer(h, j)
             /\ h[j].qname = h[k].qname
             /\ h[j].rdata # h[k].rdata}

IsPrefix(s, t) == Len(s) <= Len(t) /\ SubSeq(t, 1, Len(s)) = s

\* ================================================================= claims
\* C1: first-write-wins. The first processed answer for a name N stores
\* cache[N] = its address, and in every later state cache[N] is still that first
\* address whatever later answers for N carried; a name without a processed
\* answer has no cache entry.
C1_FirstWriteWins ==
    \A n \in Names :
        IF AnswersFor(processed, n) # {}
        THEN n \in DOMAIN cache
             /\ cache[n] = processed[FirstAnswer(processed, n)].rdata
        ELSE n \notin DOMAIN cache

\* C1 witness: a divergent answer for a cached name has been processed and the
\* cache still holds the first address.
C1_Witness ==
    \E k \in Divergent(processed) :
        /\ processed[k].qname \in DOMAIN cache
        /\ cache[processed[k].qname] # processed[k].rdata
        /\ cache[processed[k].qname]
             = processed[FirstAnswer(processed, processed[k].qname)].rdata

\* C2: the log holds a record for name N iff some processed answer for N arrived
\* when the cache already held N and carried an address other than the cached
\* one; each such divergent answer produced exactly one record, and answers
\* repeating the cached address produced none.
C2_SuspicionIffDivergent ==
    LET D == Divergent(processed)
    IN /\ Len(suspicious_responses) = Cardinality(D)
       /\ \A n \in Names :
            LET logged == {e \in 1..Len(suspicious_responses) :
                              suspicious_responses[e][1] = n}
                diverged == {k \in D : processed[k].qname = n}
            IN /\ logged # {} <=> diverged # {}
               /\ Cardinality(logged) = Cardinality(diverged)

\* C2 witness: Scenario 1 followed by a divergence: a name was answered twice
\* with the same address, which left the log empty, and a third answer for it
\* diverged and produced the only record.
C2_Witness ==
    /\ Len(processed) = 3
    /\ \A k \in 1..3 : IsAnswer(processed[k]) /\ processed[k].qname = processed[1].qname
    /\ processed[2].rdata = processed[1].rdata
    /\ processed[3].rdata # processed[1].rdata
    /\ Len(suspicious_responses) = 1

\* C3: every log entry (name, cachedAddress, observedAddress) has name cached,
\* cachedAddress = cache[name] and observedAddress # cachedAddress.
C3_EntryWellFormed ==
    \A e \in 1..Len(suspicious_responses) :
        LET r == suspicious_responses[e]
        IN /\ r[1] \in DOMAIN cache
           /\ r[2] = cache[r[1]]
           /\ r[3] # r[2]

\* C3 witness: Scenario 2, the log is exactly <<(foo.example., 1.1.1.1, 2.2.2.2)>>.
C3_Witness ==
    suspicious_responses = << <<"foo.example.", "1.1.1.1", "2.2.2.2">> >>

\* C4: the log is append-only over the whole session: every step of every
\* operation leaves the old log a prefix of the new one, and a step that extends
\* it appends the one record of the packet that has just arrived.
C4_AppendOnly ==
    [][ /\ IsPrefix(suspicious_responses, suspicious_responses')
        /\ suspicious_responses' # suspicious_responses =>
             /\ Len(processed') = Len(processed) + 1
             /\ LET p == processed'[Len(processed')]
                IN suspicious_responses' =
                     Append(suspicious_responses, <<p.qname, cache'[p.qname], p.rdata>>)
      ]_vars

\* C4 witness: the session is over with two records in the log, of which the
\* second arrived after the first.
C4_Witness ==
    /\ pc = "Done"
    /\ Len(suspicious_responses) = 2
    /\ \E j, k \in Divergent(processed) :
         /\ j < k
         /\ suspicious_responses[1][3] = processed[j].rdata
         /\ suspicious_responses[2][3] = processed[k].rdata

\* The verdict of a task whose resolver call succeeded.
Resolved(t) == t.real_ip # None
Failed(t) == t.outcome \in {"NXDOMAIN", "error"}

\* C5: for every suspected name on which the trusted resolver succeeded,
\* verify_dns confirms the suspicion iff the resolver's answer differs from the
\* cached address recorded in the log entry of the task (whatever the observed
\* address of that entry is).
C5_ConfirmedIffDiffers ==
    \A i \in 1..Len(futures) :
        Resolved(futures[i]) =>
            (futures[i].confirmed
               <=> futures[i].real_ip # suspicious_responses[i][2])

\* C6: no step of the verification phase (verify_suspicious_responses,
\* verify_dns, trace_actual_dns, under any interleaving of the workers and
\* whatever the outcome of a task) changes cache or suspicious_responses.
C6_VerificationFrame ==
    [][ (pc \in {"Stopping", "Verifying"} \/ pc' \in {"Verifying", "Done"})
          => /\ cache' = cache
             /\ suspicious_responses' = suspicious_responses ]_vars

\* C6 witness: the verification phase has ended with one task confirmed (its
\* three lookups made) and one task failed, over a non-empty cache.
C6_Witness ==
    /\ pc = "Done"
    /\ DOMAIN cache # {}
    /\ \E i, j \in 1..Len(futures) :
         /\ futures[i].confirmed /\ Len(futures[i].lookups) = 3
         /\ Failed(futures[j])

\* C7 as stated: the number of verify_dns tasks submitted equals the number of
\* distinct names in the log.
C7_OnePerDistinctName ==
    pc = "Done" =>
        Len(futures) = Cardinality({suspicious_responses[e][1] :
                                       e \in 1..Len(suspicious_responses)})

\* C7 amended: one verify_dns task is submitted per entry of the log, in log
\* order, task i for the name of entry i; a name flagged k times gets k tasks.
C7_OnePerEntry ==
    /\ Len(futures) <= Len(suspicious_responses)
    /\ \A i \in 1..Len(futures) : futures[i].domain = suspicious_responses[i][1]
    /\ pc = "Done" => Len(futures) = Len(suspicious_responses)

\* C7 witness: the call has returned over a log that flags one name twice.
C7_Witness ==
    /\ pc = "Done"
    /\ Len(suspicious_responses) = 2
    /\ suspicious_responses[1][1] = suspicious_responses[2][1]
    /\ Len(futures) = 2

\* C8: verify_suspicious_responses has returned only when every entry's task
\* was submitted and has finished, attribution lookups included.
C8_Barrier ==
    pc = "Done" =>
        /\ Len(futures) = Len(SubmittedDomains(suspicious_responses))
        /\ \A i \in 1..Len(futures) :
             /\ futures[i].state = "done"
             /\ futures[i].confirmed => Len(futures[i].lookups) = 3

\* C8 witness: the call has returned after two tasks, one of which ran the
\* attribution lookups.
C8_Witness ==
    /\ pc = "Done"
    /\ Len(futures) = 2
    /\ \E i \in 1..2 : futures[i].confirmed /\ futures[i].lookups = Lookups

C10_LookupsIndependent ==
    \A i \in 1..Len(futures) :
        LET t == futures[i]
        IN /\ IsPrefix(t.lookups, Lookups)
           /\ t.failed \subseteq {t.lookups[k] : k \in 1..Len(t.lookups)}
           /\ (~t.confirmed \/ t.state = "tracing") => t.lookups = <<>>
           /\ (t.confirmed /\ t.state = "done") =>
                 t.lookups = Lookups /\ t.outcome = "returned"

\* C10 witness: a confirmed task has finished with the registrar lookup failed
\* and both autonomous-system lookups made and reported.
C10_Witness ==
    \E i \in 1..Len(futures) :
        /\ futures[i].state = "done"
        /\ futures[i].failed = {"whois"}
        /\ futures[i].lookups = Lookups

\* C11: attribution is made exactly for the tasks verify_dns reports as
\* confirmed: trace_actual_dns is not entered for a task whose resolver answer
\* equals the cached address of its log entry, nor for a task whose resolution
\* failed, nor before the resolver has answered; for every confirmed task it is
\* entered with the name, the cached address and the resolver's answer, and only
\* a traced task makes lookups.
C11_AttributionIffConfirmed ==
    \A i \in 1..Len(futures) :
        LET t == futures[i]
            cached == suspicious_responses[i][2]
        IN /\ (Resolved(t) /\ t.real_ip = cached) => t.traced = <<>>
           /\ (Failed(t) \/ ~Resolved(t)) => t.traced = <<>>
           /\ t.confirmed <=> t.traced # <<>>
           /\ t.confirmed =>
                /\ t.state \in {"tracing", "done"}
                /\ Len(t.traced) = 3
                /\ t.traced[1] = suspicious_responses[i][1]
                /\ {t.traced[2], t.traced[3]} = {cached, t.real_ip}
           /\ t.traced = <<>> => t.lookups = <<>>

\* C11 witness: Scenarios 3 and 4 in one session: one task ended unconfirmed
\* with the resolver answering the cached address and no trace, another was
\* confirmed and traced.
C11_Witness ==
    /\ pc = "Done"
    /\ \E i, j \in 1..Len(futures) :
         /\ Resolved(futures[i])
         /\ futures[i].real_ip = suspicious_responses[i][2]
         /\ futures[i].traced = <<>>
         /\ futures[j].confirmed
         /\ futures[j].lookups = Lookups

Rank(p) ==
    CASE p = "Idle" -> 0
      [] p = "Running" -> 1
      [] p = "Stopping" -> 2
      [] p = "Verifying" -> 3
      [] p = "Done" -> 4

C14_NothingAfterStop == after_stop = 0

\* C14 amended: sniff calls dns_detect on a packet before it asks check_stop, so
\* after stop_detection at most one more record (the next the capture source
\* delivers) is passed through dns_detect, and that record ends the loop: no
\* second record is processed after the stop signal.
C14_AtMostOneAfterStop ==
    /\ after_stop <= 1
    /\ after_stop = 1 =>
          /\ stop_detecting
          /\ pc # "Running"
          /\ capture = "released"

\* C14 witness: a record that arrived after stop_detection went through
\* dns_detect and added a record to the log before the loop ended.
C14_Witness ==
    /\ after_stop = 1
    /\ Len(processed) \in Divergent(processed)
    /\ Len(suspicious_responses) >= 1

\* C15 as stated: for a confirmed mismatch the two autonomous-system lookups
\* are made for the cached address and for the observed (divergent) address of
\* the log entry, and the registrar lookup for its domain.
C15_AsnForCachedAndObserved ==
    \A i \in 1..Len(futures) :
        futures[i].confirmed =>
            /\ LookupTarget("whois", futures[i].traced) = suspicious_responses[i][1]
            /\ {LookupTarget("asn_real", futures[i].traced),
                LookupTarget("asn_spoofed", futures[i].traced)}
                 = {suspicious_responses[i][2], suspicious_responses[i][3]}

\* C15 amended: for a confirmed mismatch the registrar lookup is made for the
\* domain, the "real IP" autonomous-system lookup for the trusted resolver's
\* answer and the "spoofed IP" one for the cached address; the observed address
\* of the log entry is not looked up.
C15_AsnForResolvedAndCached ==
    \A i \in 1..Len(futures) :
        futures[i].confirmed =>
            /\ LookupTarget("whois", futures[i].traced) = suspicious_responses[i][1]
            /\ LookupTarget("asn_real", futures[i].traced) = futures[i].real_ip
            /\ LookupTarget("asn_spoofed", futures[i].traced)
                 = suspicious_responses[i][2]
            /\ futures[i].real_ip \in ResolverAnswers

\* C15 witness: a confirmed task has made its three lookups, and the resolver's
\* answer it looked up is neither the cached nor the observed address.
C15_Witness ==
    \E i \in 1..Len(futures) :
        /\ futures[i].confirmed
        /\ futures[i].lookups = Lookups
        /\ futures[i].real_ip # suspicious_responses[i][3]
        /\ futures[i].real_ip # suspicious_responses[i][2]

\* ============================================== sessions with a long log
\* The cache and the log after dns_detect has processed the packets of h in
\* order, from the empty cache and log of __init__.
DetectAll(h) ==
    LET G[k \in 0..Len(h)] ==
          IF k = 0 THEN [c |-> <<>>, log |-> <<>>]
          ELSE [c |-> DetectCache(G[k - 1].c, h[k]),
                log |-> DetectLog(G[k - 1].c, G[k - 1].log, h[k])]
    IN G[Len(h)]

Answer(qname, rdata) ==
    [hasRR |-> TRUE, hasQR |-> TRUE, qname |-> qname, rdata |-> rdata]

\* A capture that flags bar.example. once (cached 1.1.1.1) and foo.example.
\* PoolTasks - 1 times (cached with an empty rdata).
PoolPackets ==
    << Answer("bar.example.", "1.1.1.1"), Answer("bar.example.", "2.2.2.2"),
       Answer("foo.example.", "") >>
    \o [k \in 1..(PoolTasks - 1) |-> Answer("foo.example.", "1.1.1.1")]

\* The session when start_detecting has returned from the capture of
\* PoolPackets, ended by a KeyboardInterrupt.
PoolInit ==
    /\ cache = DetectAll(PoolPackets).c
    /\ suspicious_responses = DetectAll(PoolPackets).log
    /\ stop_detecting = FALSE
    /\ pc = "Stopping"
    /\ futures = <<>>
    /\ processed = PoolPackets
    /\ capture = "released"
    /\ after_stop = 0

\* The steps of the verification phase.
VerifyNext ==
    \/ verify_suspicious_responses
    \/ executor_submit
    \/ \E i \in 1..Len(futures) : worker_start(i)
    \/ \E i \in 1..Len(futures) : verify_dns(i)
    \/ \E i \in 1..Len(futures) : verify_dns_failed(i)
    \/ \E i \in 1..Len(futures) : trace_actual_dns(i)
    \/ verify_return

SpecPool == PoolInit /\ [][VerifyNext]_vars

\* C16: at every instant of the verification phase at most 5 verification
\* tasks are executing, however many entries the log holds; a submitted task
\* that is not executing and not finished is waiting for a worker.
C16_AtMostFiveExecuting ==
    /\ Cardinality(Executing(futures)) <= 5
    /\ \A i \in 1..Len(futures) :
         futures[i].state \in {"pending", "running", "tracing", "done"}

\* C16 witness: five tasks are executing while a sixth, already submitted,
\* waits for a worker.
C16_Witness ==
    /\ Len(suspicious_responses) > 5
    /\ Cardinality(Executing(futures)) = 5
    /\ \E i \in 1..Len(futures) : futures[i].state = "pending"

\* ================================================= capture of wire packets
\* The capture loop alone, fed with packets that carry any number of answers.
DetectNext ==
    \/ start_detecting
    \/ \E w \in WirePackets : sniff_packet(FirstRecord(w))

SpecDetect == Init /\ [][DetectNext]_vars

\* Two responses with the same queried name and the same first answer address.
SameFirstAnswer(p, q) ==
    /\ p.hasQR /\ q.hasQR
    /\ p.qname = q.qname
    /\ p.answers # <<>> /\ q.answers # <<>>
    /\ p.answers[1] = q.answers[1]

C18_NoRetry ==
    [][ /\ Len(futures') <= Len(suspicious_responses')
        /\ \A i \in 1..Len(futures') :
             /\ futures'[i].queries <= 1
             /\ Len(futures'[i].lookups) <= Len(Lookups)
             /\ \A a \in 1..Len(futures'[i].lookups) :
                  \A b \in 1..Len(futures'[i].lookups) :
                      futures'[i].lookups[a] = futures'[i].lookups[b] => a = b
        /\ \A i \in 1..Len(futures) :
             futures[i].state = "done" =>
                 /\ i <= Len(futures')
                 /\ futures'[i] = futures[i] ]_vars

\* C18 witness: the barrier has been passed with one task whose resolver query
\* failed and one whose attribution had a failing lookup, each after a single
\* resolver query.
C18_Witness ==
    /\ pc = "Done"
    /\ \E i \in 1..Len(futures) :
         /\ Failed(futures[i])
         /\ futures[i].queries = 1
    /\ \E j \in 1..Len(futures) :
         /\ futures[j].failed # {}
         /\ futures[j].queries = 1

\* ============================================================ termination
\* The session under fairness: the main thread goes on to the finally clause,
\* the pool's workers are scheduled, and every resolver, registrar and ASN
\* call returns or raises.
LiveSpec == Spec /\ WF_vars(VerifyNext)

\* C19: every session whose capture loop has ended eventually passes the
\* verification barrier and reaches Done.
C19_EventuallyDone == (pc \in {"Stopping", "Verifying"}) ~> (pc = "Done")

\* C19 witness: Done is reached over a log whose tasks ended in different
\* ways: one confirmed and traced, one failed.
C19_Witness ==
    /\ pc = "Done"
    /\ Len(futures) = Len(suspicious_responses)
    /\ \E i \in 1..Len(futures) : futures[i].confirmed
    /\ \E j \in 1..Len(futures) : Failed(futures[j])

\* ====================================================== packets unanswered
\* C20: a step of the capture loop that processes a packet without an answer
\* record leaves cache and suspicious_responses unchanged.
C20_NoAnswerNoEffect ==
    [][ (/\ Len(processed') = Len(processed) + 1
         /\ ~processed'[Len(processed')].hasRR)
        => (/\ cache' = cache
            /\ suspicious_responses' = suspicious_responses) ]_vars

\* C20 witness: a query for a name was processed and the name has no baseline,
\* while an answer processed after it established one for another name.
C20_Witness ==
    \E k \in 1..Len(processed) :
        /\ ~processed[k].hasRR
        /\ processed[k].hasQR
        /\ processed[k].qname \notin DOMAIN cache
        /\ \E l \in (k + 1)..Len(processed) :
             /\ IsAnswer(processed[l])
             /\ processed[l].qname \in DOMAIN cache
====
